---- MODULE Spec2Model ----
(***************************************************************************)
(* Model of the distributed runtime of pyqit/haydi:                        *)
(*   DistributedContext.run and DistributedComputation.iterate_jobs        *)
(*   (src/src/haydi/base/runtime/distributedcontext.py).                   *)
(* The JobScheduler, the domains and the helper classes of util are not    *)
(* part of the available sources; they are modelled from the design        *)
(* document (spec.md, sections 3, 4.1, 4.3 and 5) and from the tests.      *)
(***************************************************************************)
EXTENDS Integers, Sequences, FiniteSets, TLC

(* ------------------------------ bounds -------------------------------- *)
\* largest Range(n) a run is given
MaxSteps == 2
\* largest cap k of take(k)
MaxTake == 1
\* largest total number of cores the executor reports
MaxCores == 1
\* longest tuple and largest number of pairs of a Map given to compare
MaxLen == 2
\* largest Range(n) the transformations are tried on
MaxRange == 5
\* longest chain of take
MaxChain == 2
\* largest number of items the parent of an MpiSplitIterator yields
MaxItems == 3
\* largest group of nodes of an MpiSplitIterator
MaxNodes == 2

(* ------------------------- python-like helpers ------------------------ *)
\* Python's None (for domain.size, timeout, the reduce functions)
None == 0 - 1

Min(a, b) == IF a <= b THEN a ELSE b

\* seq[:n] for n >= 0; seq[:None] is the whole list
Slice(seq, n) ==
    IF n = None THEN seq
    ELSE SubSeq(seq, 1, Min(n, Len(seq)))

RECURSIVE Flatten(_)
\* list(itertools.chain.from_iterable(results))
Flatten(lists) ==
    IF lists = <<>> THEN <<>>
    ELSE Head(lists) \o Flatten(Tail(lists))

\* the global reduce function the runs are given: not commutative and not
\* associative, so that the order and the bracketing of a fold both show
GlobalReduceFn(acc, x) == 2 * acc + x

RECURSIVE Reduce(_, _)
\* reduce(global_reduce_fn, seq, acc): left-to-right fold from acc
Reduce(seq, acc) ==
    IF seq = <<>> THEN acc
    ELSE Reduce(Tail(seq), GlobalReduceFn(acc, Head(seq)))

RECURSIVE Sum(_)
Sum(seq) == IF seq = <<>> THEN 0 ELSE Head(seq) + Sum(Tail(seq))

\* job inserted into the sorted list sorted, after the jobs that are not greater
RECURSIVE InsertByStart(_, _)
InsertByStart(job, sorted) ==
    IF sorted = <<>> THEN <<job>>
    ELSE IF job.start_index < Head(sorted).start_index
         THEN <<job>> \o sorted
         ELSE <<Head(sorted)>> \o InsertByStart(job, Tail(sorted))

\* the list left as the loop filled it
SortByStart_Unsorted(js) == js

RECURSIVE SortByStart(_)
\* jobs.sort(key=lambda job: job.start_index): stable, ascending
SortByStart(js) ==
    IF js = <<>> THEN <<>>
    ELSE InsertByStart(js[Len(js)], SortByStart(SubSeq(js, 1, Len(js) - 1)))

(* ------------------------------ domains ------------------------------ *)
\* the predicates a domain is filtered by: lambda x: True, lambda x: x % 2 == 1
Predicates == {"true", "odd"}

\* Range(n) [.filter(pred)] [.take(k)]; filter "none" is the unfiltered domain
Domains ==
    [n : 0..MaxSteps, filter : {"none"} \cup Predicates,
     take : {None} \cup (1..MaxTake)]

Filtered(d) == d.filter # "none"

\* the predicate of the filter
Passes(d, x) ==
    CASE d.filter = "odd" -> x % 2 = 1
      [] d.filter = "even" -> x % 2 = 0
      [] OTHER -> TRUE

\* number of addressable positions: a cap on a filtered domain does not cut
\* the position space
DomainSteps(d) ==
    IF d.take = None \/ Filtered(d) THEN d.n ELSE Min(d.n, d.take)

\* declared logical size (None when unknown)
DomainSize(d) ==
    IF d.take = None
    THEN (IF Filtered(d) THEN None ELSE d.n)
    ELSE (IF Filtered(d) THEN d.take ELSE Min(d.n, d.take))

RECURSIVE IterateSteps(_, _, _)
\* elements of the positions [start, stop) that pass the filter, in order
IterateSteps(d, start, stop) ==
    IF start >= stop THEN <<>>
    ELSE (IF Passes(d, start) THEN <<start>> ELSE <<>>)
         \o IterateSteps(d, start + 1, stop)

\* sequential enumeration of the whole domain
Enumerate(d) == Slice(IterateSteps(d, 0, d.n), d.take)

(* ------------------------ transformation layer ----------------------- *)
\* a domain as the chain of its wrappers, each holding its parent
Range(n) == [kind |-> "range", n |-> n]
FilterTransformation(parent, pred) ==
    [kind |-> "filter", filter |-> pred, parent |-> parent]
MapTransformation(parent, fn) ==
    [kind |-> "map", fn |-> fn, parent |-> parent]
TakeTransformation(parent, k) ==
    [kind |-> "take", k |-> k, parent |-> parent]

\* the functions a domain is mapped by: lambda x: x * 10, lambda x: x * 2
Functions == {"times10", "times2"}

Apply(fn, x) == IF fn = "times10" THEN x * 10 ELSE x * 2

RECURSIVE IsFiltered(_)
\* domain.filtered
IsFiltered(d) ==
    CASE d.kind = "range" -> FALSE
      [] d.kind = "filter" -> TRUE
      [] OTHER -> IsFiltered(d.parent)

\* the cap as the size, whatever the parent holds
TakeSize_Cap(size, k) == k

\* size of take(k) on a parent of the given size
TakeSize(size, k) == IF size = None THEN k ELSE Min(size, k)

RECURSIVE Steps(_)
\* domain.steps: the number of addressable positions
Steps(d) ==
    CASE d.kind = "range" -> d.n
      [] d.kind = "take" ->
            IF IsFiltered(d.parent) THEN Steps(d.parent)
            ELSE TakeSize(Steps(d.parent), d.k)
      [] OTHER -> Steps(d.parent)

RECURSIVE Size(_)
\* domain.size: the number of elements, None when it is not known
Size(d) ==
    CASE d.kind = "range" -> d.n
      [] d.kind = "filter" -> None
      [] d.kind = "map" -> Steps(d.parent)
      [] d.kind = "take" -> TakeSize(Size(d.parent), d.k)

\* the positions kept with the elements that fail the predicate
Retained_All(d, items) == items

\* the elements of a list that pass the predicate of a filter
Retained(d, items) ==
    LET Test(x) == Passes(d, x) IN SelectSeq(items, Test)

RECURSIVE StepsIterated(_, _, _)
\* list(domain.iterate_steps(start, stop))
StepsIterated(d, start, stop) ==
    CASE d.kind = "range" ->
            [i \in 1..(Min(stop, d.n) - start) |-> start + i - 1]
      [] d.kind = "filter" -> Retained(d, StepsIterated(d.parent, start, stop))
      [] d.kind = "map" ->
            LET items == StepsIterated(d.parent, start, stop)
            IN  [i \in 1..Len(items) |-> Apply(d.fn, items[i])]
      [] d.kind = "take" ->
            StepsIterated(d.parent, start, Min(stop, Steps(d)))

\* list(domain)
Iterated(d) == Slice(StepsIterated(d, 0, Steps(d)), Size(d))

RECURSIVE TakeChain(_, _)
\* domain.take(k1). ... .take(km)
TakeChain(d, caps) ==
    IF caps = <<>> THEN d
    ELSE TakeChain(TakeTransformation(d, Head(caps)), Tail(caps))

\* the domains the transformations are tried on: Range(n), filtered or not,
\* mapped or not, and Range(n) under a chain of caps
FilteredAndMapped ==
    LET ranges == {Range(n) : n \in 0..MaxRange}
        filtered == ranges \cup
            {FilterTransformation(r, p) : r \in ranges, p \in {"even", "odd"}}
    IN  filtered \cup
            {MapTransformation(f, fn) : f \in filtered, fn \in Functions}

Caps == UNION {[1..m -> 0..(MaxRange + 1)] : m \in 1..MaxChain}

(* ------------------------- canonical comparator ----------------------- *)
\* the values compare is given; a string and the name of an ASet are the
\* sequences of their character codes
Number(n) == [kind |-> "number", num |-> n]
String(cs) == [kind |-> "string", chars |-> cs]
Atom(name, index) == [kind |-> "atom", set |-> name, index |-> index]
Tuple(items) == [kind |-> "tuple", items |-> items]
Map(pairs) == [kind |-> "map", pairs |-> pairs]

\* cmp of two integers
CompareNumbers(x, y) == IF x < y THEN 0 - 1 ELSE IF x > y THEN 1 ELSE 0

RECURSIVE CompareChars(_, _)
\* cmp of two strings: by character code, a proper prefix first
CompareChars(s, t) ==
    IF s = <<>> THEN (IF t = <<>> THEN 0 ELSE 0 - 1)
    ELSE IF t = <<>> THEN 1
    ELSE IF Head(s) # Head(t) THEN CompareNumbers(Head(s), Head(t))
    ELSE CompareChars(Tail(s), Tail(t))

\* the rank table in the order of the design document, atoms third
TypeRank_AtomsThird(v) ==
    CASE v.kind = "number" -> 0
      [] v.kind = "string" -> 1
      [] v.kind = "atom" -> 2
      [] v.kind = "tuple" -> 3
      [] v.kind = "map" -> 4

\* the rank of a value's kind: an atom is below a number, a string and a
\* tuple, a string is below a tuple and a map
TypeRank(v) ==
    CASE v.kind = "atom" -> 0
      [] v.kind = "number" -> 1
      [] v.kind = "string" -> 2
      [] v.kind = "tuple" -> 3
      [] v.kind = "map" -> 4

\* atoms by set name, then by index in the set
CompareAtoms(x, y) ==
    IF x.set # y.set THEN CompareChars(x.set, y.set)
    ELSE CompareNumbers(x.index, y.index)

RECURSIVE Compare(_, _)
RECURSIVE CompareItems(_, _)
\* two sequences of equal length, item by item: the first items that differ
\* decide
CompareItems(s, t) ==
    IF s = <<>> \/ t = <<>> THEN 0
    ELSE LET c == Compare(Head(s), Head(t))
         IN  IF c # 0 THEN c ELSE CompareItems(Tail(s), Tail(t))

RECURSIVE CompareSequence_Lexicographic(_, _)
\* item by item from the start, a proper prefix first
CompareSequence_Lexicographic(s, t) ==
    IF s = <<>> THEN (IF t = <<>> THEN 0 ELSE 0 - 1)
    ELSE IF t = <<>> THEN 1
    ELSE LET c == Compare(Head(s), Head(t))
         IN  IF c # 0 THEN c
             ELSE CompareSequence_Lexicographic(Tail(s), Tail(t))

\* the items of the common positions only, the lengths not looked at
CompareSequence_Zipped(s, t) == CompareItems(s, t)

\* two sequences: the shorter one first, those of equal length item by item
CompareSequence(s, t) ==
    IF Len(s) # Len(t) THEN CompareNumbers(Len(s), Len(t))
    ELSE CompareItems(s, t)

RECURSIVE InsertItem(_, _)
\* item put into the sorted sequence, before the first greater item
InsertItem(item, sorted) ==
    IF sorted = <<>> THEN <<item>>
    ELSE IF Compare(item, Head(sorted)) < 0 THEN <<item>> \o sorted
    ELSE <<Head(sorted)>> \o InsertItem(item, Tail(sorted))

RECURSIVE SortItems(_)
\* a sequence of values sorted by compare
SortItems(items) ==
    IF items = <<>> THEN <<>>
    ELSE InsertItem(items[Len(items)],
                    SortItems(SubSeq(items, 1, Len(items) - 1)))

\* the pairs of a Map as tuples, in canonical order
CanonicalPairs(m) == SortItems([i \in 1..Len(m.pairs) |-> Tuple(m.pairs[i])])

\* compare(a, b)
Compare(a, b) ==
    IF TypeRank(a) # TypeRank(b)
    THEN CompareNumbers(TypeRank(a), TypeRank(b))
    ELSE CASE a.kind = "number" -> CompareNumbers(a.num, b.num)
           [] a.kind = "string" -> CompareChars(a.chars, b.chars)
           [] a.kind = "atom" -> CompareAtoms(a, b)
           [] a.kind = "tuple" -> CompareSequence(a.items, b.items)
           [] a.kind = "map" ->
                CompareSequence(CanonicalPairs(a), CanonicalPairs(b))

\* bindings.get(atom, atom): the atom a binding map gives for an atom, the
\* atom itself when it is no key of the map
Resolve(atom, bindings) ==
    IF atom \in DOMAIN bindings THEN bindings[atom] ELSE atom

RECURSIVE ReplaceAtoms(_, _)
\* replace_atoms(value, lambda x: bindings.get(x, x)): the value rebuilt
\* with every atom resolved, the pairs of a Map left in their order
ReplaceAtoms(v, bindings) ==
    CASE v.kind = "atom" -> Resolve(v, bindings)
      [] v.kind = "tuple" ->
            Tuple([i \in 1..Len(v.items) |->
                      ReplaceAtoms(v.items[i], bindings)])
      [] v.kind = "map" ->
            Map([i \in 1..Len(v.pairs) |->
                    <<ReplaceAtoms(v.pairs[i][1], bindings),
                      ReplaceAtoms(v.pairs[i][2], bindings)>>])
      [] OTHER -> v

RECURSIVE Compare2(_, _, _, _)
RECURSIVE Compare2Items(_, _, _, _)
\* two sequences of equal length, item by item, each side under its bindings
Compare2Items(s, bs, t, bt) ==
    IF s = <<>> \/ t = <<>> THEN 0
    ELSE LET c == Compare2(Head(s), bs, Head(t), bt)
         IN  IF c # 0 THEN c ELSE Compare2Items(Tail(s), bs, Tail(t), bt)

Compare2Sequence(s, bs, t, bt) ==
    IF Len(s) # Len(t) THEN CompareNumbers(Len(s), Len(t))
    ELSE Compare2Items(s, bs, t, bt)

RECURSIVE InsertItem2(_, _, _)
InsertItem2(item, sorted, bindings) ==
    IF sorted = <<>> THEN <<item>>
    ELSE IF Compare2(item, bindings, Head(sorted), bindings) < 0
         THEN <<item>> \o sorted
         ELSE <<Head(sorted)>> \o InsertItem2(item, Tail(sorted), bindings)

RECURSIVE SortItems2(_, _)
\* a sequence of values sorted by compare2 under one binding map
SortItems2(items, bindings) ==
    IF items = <<>> THEN <<>>
    ELSE InsertItem2(items[Len(items)],
                     SortItems2(SubSeq(items, 1, Len(items) - 1), bindings),
                     bindings)

\* the pairs in the canonical order the Map has without the bindings
CanonicalPairs2_Unbound(m, bindings) == CanonicalPairs(m)

\* the pairs of a Map as tuples, in the canonical order of the resolved pairs
CanonicalPairs2(m, bindings) ==
    SortItems2([i \in 1..Len(m.pairs) |-> Tuple(m.pairs[i])], bindings)

\* compare2(a, bindings_a, b, bindings_b)
Compare2(a, ba, b, bb) ==
    IF TypeRank(a) # TypeRank(b)
    THEN CompareNumbers(TypeRank(a), TypeRank(b))
    ELSE CASE a.kind = "number" -> CompareNumbers(a.num, b.num)
           [] a.kind = "string" -> CompareChars(a.chars, b.chars)
           [] a.kind = "atom" ->
                CompareAtoms(Resolve(a, ba), Resolve(b, bb))
           [] a.kind = "tuple" -> Compare2Sequence(a.items, ba, b.items, bb)
           [] a.kind = "map" ->
                Compare2Sequence(CanonicalPairs2(a, ba), ba,
                                 CanonicalPairs2(b, bb), bb)

\* the values and the binding maps compare and compare2 are called with
\* ASet(2, "a") and ASet(1, "b")
Atoms == {Atom(<<97>>, 0), Atom(<<97>>, 1), Atom(<<98>>, 0)}
AtomsOfA == {x \in Atoms : x.set = <<97>>}

Leaves ==
    {Number(1), Number(2), String(<<65>>), String(<<97>>)} \cup Atoms

\* the sequences over S of length 0 .. n
SeqsUpTo(S, n) == UNION {[1..k -> S] : k \in 0..n}

\* tuples of numbers and atoms
Tuples == {Tuple(s) : s \in SeqsUpTo({Number(1)} \cup AtomsOfA, MaxLen)}

\* Maps of atoms to atoms, each key once, the pairs in every insertion order
Maps ==
    {Map(s) : s \in {p \in SeqsUpTo(AtomsOfA \X AtomsOfA, MaxLen) :
                        \A i, j \in 1..Len(p) : i # j => p[i][1] # p[j][1]}}

Values == Leaves \cup Tuples \cup Maps

\* binding maps that relabel atoms of the set "a" by other atoms of the set
Bindings ==
    UNION {{f \in [D -> AtomsOfA] : \A x \in D : f[x] # x} :
              D \in SUBSET AtomsOfA}

(* --------------------------- job scheduler --------------------------- *)
\* the elements of a finite set of numbers in ascending order
RECURSIVE Ascending(_)
Ascending(S) ==
    IF S = {} THEN <<>>
    ELSE LET m == CHOOSE x \in S : \A y \in S : x <= y
         IN  <<m>> \o Ascending(S \ {m})

\* the jobs of one split of [0, steps) at the positions cuts: contiguous,
\* non-empty chunks in ascending order of start_index
JobsOfCuts(steps, cuts) ==
    LET b == Ascending({0} \cup cuts \cup {steps})
    IN  [i \in 1..(Len(b) - 1) |->
            [start_index |-> b[i], size |-> b[i + 1] - b[i]]]

\* every split of [0, steps) into contiguous chunks (the chunk sizes are the
\* scheduler's policy)
Partitions(steps) ==
    IF steps = 0 THEN {<<>>}
    ELSE {JobsOfCuts(steps, cuts) : cuts \in SUBSET (1..(steps - 1))}

\* what a worker attaches to a job: the elements of its chunk, or their
\* reduction (a sum from worker_reduce_init() = 0) when a worker reduce
\* function is given
WorkerResult(d, job, reduce) ==
    LET items == IterateSteps(d, job.start_index, job.start_index + job.size)
    IN  IF reduce THEN Sum(items) ELSE items

CompletedJob(d, job, reduce) ==
    [start_index |-> job.start_index, size |-> job.size,
     result |-> WorkerResult(d, job, reduce)]

NoScheduler ==
    [state |-> "None", completed |-> FALSE, canceled |-> FALSE,
     chunks |-> <<>>, in_flight |-> {}, job_queue |-> <<>>,
     start_calls |-> 0, stop_calls |-> 0]

\* JobScheduler(executor, workers, timeout, domain, fn, init)
JobScheduler(chunks) ==
    [NoScheduler EXCEPT !.state = "Idle", !.chunks = chunks]

\* the chunks start() submits: the in-flight window of the scheduler (pool
\* size times a small multiplier) covers every chunk of a domain this small
Submitted(s) == {s.chunks[i] : i \in 1..Len(s.chunks)}

(* ------------------------------- state -------------------------------- *)
VARIABLES
    execution_count,        \* DistributedContext.execution_count
    write_partial_results,  \* DistributedContext.write_partial_results
    pc,                     \* position of the caller's thread in run
    worker_count,           \* the worker count of run's start message
    domain,                 \* run's argument domain
    worker_reduce,          \* worker_reduce_fn is not None
    global_reduce,          \* global_reduce_fn is not None
    global_init,            \* value of global_reduce_init(), None without it
    timeout,                \* timeout is not None
    expired,                \* TimeoutManager.is_finished()
    scheduler,              \* the JobScheduler of the run
    callbacks,              \* DistributedComputation.callbacks
    jobs,                   \* iterate_jobs' local list jobs
    cb_index,               \* callbacks already called for the last job
    callback_log,           \* the calls cb(scheduler, job) made, in order
    exit_path,              \* how the polling loop was left
    unfetched_at_exit,      \* jobs in job_queue when the loop was left
    results,                \* run's local list results after trimming
    returned,               \* what run returned or raised
    comparison,             \* a call of compare or compare2 and its result
    transformed,            \* a domain, a call of its iteration and the list
    group,                  \* MpiSplitIterator.group
    group_index,            \* MpiSplitIterator.group_index
    generated,              \* items the parent of the split has yielded
    split_pc,               \* position of the node driving the split
    worker,                 \* position and item in hand of each group node
    group_count,            \* MpiReceiveIterator.group_count
    stop_count,             \* MpiReceiveIterator.stop_count
    receive_pc,             \* position of the node driving the receiver
    network,                \* the messages sent and not yet received
    sent,                   \* the messages the split has sent, in order
    forwarded,              \* the items the group nodes have sent on
    received                \* how often the receiver returned each item

vars ==
    <<execution_count, write_partial_results, pc, worker_count, domain,
      worker_reduce, global_reduce, global_init, timeout, expired,
      scheduler, callbacks, jobs, cb_index, callback_log, exit_path,
      unfetched_at_exit, results, returned, comparison, transformed,
      group, group_index, generated, split_pc, worker, group_count,
      stop_count, receive_pc, network, sent, forwarded, received>>

ctx_vars == <<execution_count, write_partial_results>>
input_vars == <<domain, worker_reduce, global_reduce, global_init, timeout>>
loop_vars == <<jobs, cb_index, callback_log, exit_path, unfetched_at_exit>>
run_vars ==
    <<ctx_vars, pc, worker_count, input_vars, expired, scheduler, callbacks,
      loop_vars, results, returned>>
mpi_vars ==
    <<group, group_index, generated, split_pc, worker, group_count,
      stop_count, receive_pc, network, sent, forwarded, received>>
\* what the calls of DistributedContext.run leave alone
other_vars == <<comparison, transformed, mpi_vars>>

NoReturn == [kind |-> "none", list |-> <<>>, value |-> 0]
ReturnList(l) == [kind |-> "list", list |-> l, value |-> 0]
ReturnValue(v) == [kind |-> "value", list |-> <<>>, value |-> v]
Raise(e) == [kind |-> e, list |-> <<>>, value |-> 0]

\* DistributedContext.__init__, with write_partial_results given, so that
\* run registers both callbacks
ContextInit ==
    /\ execution_count = 0
    /\ write_partial_results = TRUE
    /\ pc = "idle"
    /\ worker_count = 0
    /\ domain = [n |-> 0, filter |-> "none", take |-> None]
    /\ worker_reduce = FALSE
    /\ global_reduce = FALSE
    /\ global_init = None
    /\ timeout = FALSE
    /\ expired = FALSE
    /\ scheduler = NoScheduler
    /\ callbacks = <<>>
    /\ jobs = <<>>
    /\ cb_index = 0
    /\ callback_log = <<>>
    /\ exit_path = "none"
    /\ unfetched_at_exit = {}
    /\ results = <<>>
    /\ returned = NoReturn

\* no call of compare or compare2 made
NoComparison ==
    [pc |-> "none", a |-> Number(0), b |-> Number(0), bindings_a |-> <<>>,
     bindings_b |-> <<>>, result |-> 0, reverse |-> 0]

\* no domain iterated
NoTransformed ==
    [pc |-> "none", domain |-> Range(0), caps |-> <<>>, start |-> 0,
     stop |-> 0, items |-> <<>>]

\* no MPI pipeline set up
MpiIdle ==
    /\ group = <<>>
    /\ group_index = 0
    /\ generated = 0
    /\ split_pc = "none"
    /\ worker = <<>>
    /\ group_count = 0
    /\ stop_count = 0
    /\ receive_pc = "none"
    /\ network = [offers |-> <<>>, joined |-> <<>>]
    /\ sent = <<>>
    /\ forwarded = {}
    /\ received = <<>>

\* a DistributedContext, before run is called
Init ==
    /\ ContextInit
    /\ comparison = NoComparison
    /\ transformed = NoTransformed
    /\ MpiIdle

(* ------------------------ DistributedContext.run --------------------- *)
\* the test written for a negative sum only
NoWorkers_Negative(workers) == workers < 0

\* _get_worker_count's test of the summed executor.ncores()
NoWorkers(workers) == workers = 0

\* run is called; global_reduce_fn and global_reduce_init are read by the
\* return statement only and are drawn there
RunCall(d, wr, t) ==
    /\ pc = "idle"
    /\ domain' = d
    /\ worker_reduce' = wr
    /\ timeout' = t
    /\ pc' = "worker_count"
    /\ UNCHANGED <<other_vars, ctx_vars, worker_count, global_reduce,
                   global_init, loop_vars, expired, scheduler, callbacks,
                   results, returned>>

\* start_msg = "...".format(size, self._get_worker_count(), name)
GetWorkerCount(workers) ==
    /\ pc = "worker_count"
    /\ IF NoWorkers(workers)
       THEN pc' = "raised" /\ returned' = Raise("HaydiException")
                           /\ UNCHANGED worker_count
       ELSE pc' = "create" /\ worker_count' = workers /\ UNCHANGED returned
    /\ UNCHANGED <<other_vars, ctx_vars, input_vars, loop_vars, expired,
                   scheduler, callbacks, results>>

\* the callbacks run registers, in order
Callbacks ==
    (IF write_partial_results THEN <<"result_saver">> ELSE <<>>)
    \o <<"progress_logger">>

\* haydi_logger.info(start_msg), after which the counted workers are not
\* used again; JobScheduler(self.executor, self._get_worker_count(), ...),
\* the DistributedComputation and its callbacks
CreateComputation(workers, chunks) ==
    /\ pc = "create"
    /\ worker_count' = 0
    /\ IF NoWorkers(workers)
       THEN /\ pc' = "raised"
            /\ returned' = Raise("HaydiException")
            /\ UNCHANGED <<scheduler, callbacks>>
       ELSE /\ pc' = "start"
            /\ scheduler' = JobScheduler(chunks)
            /\ callbacks' = Callbacks
            /\ UNCHANGED returned
    /\ UNCHANGED <<other_vars, ctx_vars, input_vars, loop_vars, expired,
                   results>>

(* ----------------- DistributedComputation.iterate_jobs ---------------- *)
\* self.scheduler.start()
Start ==
    /\ pc = "start"
    /\ scheduler' = [scheduler EXCEPT !.state = "Running",
                                      !.start_calls = @ + 1,
                                      !.in_flight = Submitted(scheduler)]
    /\ pc' = "loop"
    /\ UNCHANGED <<other_vars, ctx_vars, worker_count, input_vars, loop_vars,
                   expired, callbacks, results, returned>>

\* the jobs sitting in the completed-job queue
Unfetched == {scheduler.job_queue[i] : i \in 1..Len(scheduler.job_queue)}

\* while not (self.scheduler.completed or self.scheduler.canceled)
LoopTest ==
    /\ pc = "loop"
    /\ IF scheduler.completed \/ scheduler.canceled
       THEN /\ pc' = "drain"
            /\ exit_path' = IF scheduler.completed THEN "completed"
                            ELSE "canceled"
            /\ unfetched_at_exit' = Unfetched
       ELSE /\ pc' = "timeout_check"
            /\ UNCHANGED <<exit_path, unfetched_at_exit>>
    /\ UNCHANGED <<other_vars, ctx_vars, worker_count, input_vars, jobs,
                   cb_index, callback_log, expired, scheduler, callbacks,
                   results, returned>>

\* the deadline never found passed
IsTimeouted_Never == FALSE

\* self.timeout_mgr and self.timeout_mgr.is_finished()
IsTimeouted == timeout /\ expired

\* the expired deadline only ends the polling: the remaining jobs are still
\* extracted
TimeoutCheck_Break ==
    /\ pc = "timeout_check"
    /\ IF IsTimeouted
       THEN /\ pc' = "drain"
            /\ exit_path' = "timeout"
            /\ unfetched_at_exit' = Unfetched
       ELSE /\ pc' = "get"
            /\ UNCHANGED <<exit_path, unfetched_at_exit>>
    /\ UNCHANGED <<other_vars, ctx_vars, worker_count, input_vars, jobs,
                   cb_index, callback_log, expired, scheduler, callbacks,
                   results, returned>>

\* if self._is_timeouted(): raise TimeoutException()
TimeoutCheck ==
    /\ pc = "timeout_check"
    /\ IF IsTimeouted
       THEN /\ pc' = "stop"
            /\ exit_path' = "timeout"
            /\ unfetched_at_exit' = Unfetched
       ELSE /\ pc' = "get"
            /\ UNCHANGED <<exit_path, unfetched_at_exit>>
    /\ UNCHANGED <<other_vars, ctx_vars, worker_count, input_vars, jobs,
                   cb_index, callback_log, expired, scheduler, callbacks,
                   results, returned>>

\* job = self.scheduler.job_queue.get(block=False); jobs.append(job);
\* on Empty: time.sleep(3)
GetJob ==
    /\ pc = "get"
    /\ IF scheduler.job_queue = <<>>
       THEN /\ pc' = "loop"
            /\ UNCHANGED <<scheduler, jobs, cb_index>>
       ELSE /\ jobs' = Append(jobs, Head(scheduler.job_queue))
            /\ scheduler' = [scheduler EXCEPT !.job_queue = Tail(@)]
            /\ cb_index' = 0
            /\ pc' = "callback"
    /\ UNCHANGED <<other_vars, ctx_vars, worker_count, input_vars,
                   callback_log, exit_path, unfetched_at_exit, expired,
                   callbacks, results, returned>>

\* _on_job_completed: the next cb(self.scheduler, job) of the loop over
\* self.callbacks
Callback ==
    /\ pc = "callback"
    /\ IF cb_index < Len(callbacks)
       THEN /\ callback_log' =
                Append(callback_log,
                       [cb |-> callbacks[cb_index + 1],
                        job |-> jobs[Len(jobs)].start_index])
            /\ cb_index' = cb_index + 1
            /\ UNCHANGED pc
       ELSE /\ pc' = "loop"
            /\ UNCHANGED <<callback_log, cb_index>>
    /\ UNCHANGED <<other_vars, ctx_vars, worker_count, input_vars, jobs,
                   exit_path, unfetched_at_exit, expired, scheduler,
                   callbacks, results, returned>>

\* the loop left without the extraction of the remaining jobs
Drain_NoExtract ==
    /\ pc = "drain"
    /\ pc' = "stop"
    /\ UNCHANGED <<other_vars, ctx_vars, worker_count, input_vars, loop_vars,
                   expired, scheduler, callbacks, results, returned>>

\* extract remaining jobs: jobs.append(job_queue.get(block=False)) until Empty
Drain ==
    /\ pc = "drain"
    /\ IF scheduler.job_queue = <<>>
       THEN /\ pc' = "stop"
            /\ UNCHANGED <<scheduler, jobs>>
       ELSE /\ jobs' = Append(jobs, Head(scheduler.job_queue))
            /\ scheduler' = [scheduler EXCEPT !.job_queue = Tail(@)]
            /\ UNCHANGED pc
    /\ UNCHANGED <<other_vars, ctx_vars, worker_count, input_vars, cb_index,
                   callback_log, exit_path, unfetched_at_exit, expired,
                   callbacks, results, returned>>

\* the positions inside the try block
TryBlock == {"loop", "timeout_check", "get", "callback", "drain"}

\* the interrupt handled by returning at once, without scheduler.stop()
KeyboardInterrupt_NoStop ==
    /\ pc \in TryBlock
    /\ pc' = "finish"
    /\ exit_path' = "interrupt"
    /\ unfetched_at_exit' = IF pc = "drain" THEN unfetched_at_exit
                            ELSE Unfetched
    /\ UNCHANGED <<other_vars, ctx_vars, worker_count, input_vars, jobs,
                   cb_index, callback_log, expired, scheduler, callbacks,
                   results, returned>>

\* except KeyboardInterrupt: pass
KeyboardInterrupt ==
    /\ pc \in TryBlock
    /\ pc' = "stop"
    /\ exit_path' = "interrupt"
    /\ unfetched_at_exit' = IF pc = "drain" THEN unfetched_at_exit
                            ELSE Unfetched
    /\ UNCHANGED <<other_vars, ctx_vars, worker_count, input_vars, jobs,
                   cb_index, callback_log, expired, scheduler, callbacks,
                   results, returned>>

\* the terminal state stop() leaves the scheduler in
Terminal(s) ==
    IF s.completed THEN "Completed"
    ELSE IF s.canceled THEN "Canceled" ELSE "TimedOut"

\* self.scheduler.stop(); jobs.sort(key=lambda job: job.start_index);
\* return jobs
StopAndSort ==
    /\ pc = "stop"
    /\ scheduler' = [scheduler EXCEPT !.state = Terminal(scheduler),
                                      !.stop_calls = @ + 1]
    /\ jobs' = SortByStart(jobs)
    /\ pc' = "finish"
    /\ UNCHANGED <<other_vars, ctx_vars, worker_count, input_vars, cb_index,
                   callback_log, exit_path, unfetched_at_exit, expired,
                   callbacks, results, returned>>

(* -------------------- DistributedContext.run, the end ---------------- *)
\* results = [job.result for job in jobs]
JobResults(js) == [i \in 1..Len(js) |-> js[i].result]

\* if worker_reduce_fn is None: results = list(chain.from_iterable(results))
Chained(rs, reduce) == IF reduce THEN rs ELSE Flatten(rs)

\* the list trimmed to the number of positions instead of the logical size
TrimResults_ToSteps(d, rs) ==
    IF DomainSteps(d) # 0 THEN Slice(rs, DomainSteps(d)) ELSE rs

\* the list not trimmed at all
TrimResults_Untrimmed(d, rs) == rs

\* if size: results = results[:domain.size], size being domain.steps
TrimResults(d, rs) ==
    IF DomainSteps(d) # 0 THEN Slice(rs, DomainSize(d)) ELSE rs

\* the trimmed list of results run computes from the jobs
RunResults(d, js, reduce) == TrimResults(d, Chained(JobResults(js), reduce))

\* the return statement of run
RunReturn(rs, gr, gi) ==
    IF (~gr) \/ Len(rs) = 0 THEN ReturnList(rs)
    ELSE IF gi = None THEN ReturnValue(Reduce(Tail(rs), Head(rs)))
    ELSE ReturnValue(Reduce(rs, gi))

\* self.execution_count += 1 and the rest of run
FinishRun(gr, gi) ==
    /\ pc = "finish"
    /\ execution_count' = execution_count + 1
    /\ global_reduce' = gr
    /\ global_init' = gi
    /\ results' = RunResults(domain, jobs, worker_reduce)
    /\ returned' = RunReturn(results', gr, gi)
    /\ pc' = "returned"
    /\ UNCHANGED <<other_vars, write_partial_results, worker_count, domain,
                   worker_reduce, timeout, loop_vars, expired, scheduler,
                   callbacks>>

(* ------------------- the scheduler's side and the clock --------------- *)
\* a worker's completion callback puts the job on job_queue
WorkerCompletes(job) ==
    /\ scheduler.state = "Running"
    /\ job \in scheduler.in_flight
    /\ scheduler' =
         [scheduler EXCEPT
            !.in_flight = @ \ {job},
            !.job_queue = Append(@, CompletedJob(domain, job, worker_reduce))]
    /\ UNCHANGED <<other_vars, ctx_vars, worker_count, input_vars, loop_vars,
                   pc, expired, callbacks, results, returned>>

\* the scheduler sets completed once every job has been put on job_queue
SchedulerCompletes ==
    /\ scheduler.state = "Running"
    /\ ~scheduler.completed /\ ~scheduler.canceled
    /\ scheduler.in_flight = {}
    /\ scheduler' = [scheduler EXCEPT !.completed = TRUE]
    /\ UNCHANGED <<other_vars, ctx_vars, worker_count, input_vars, loop_vars,
                   pc, expired, callbacks, results, returned>>

\* the scheduler, which was given the timeout, cancels itself
SchedulerCancels ==
    /\ scheduler.state = "Running"
    /\ ~scheduler.completed /\ ~scheduler.canceled
    /\ timeout /\ expired
    /\ scheduler' = [scheduler EXCEPT !.canceled = TRUE]
    /\ UNCHANGED <<other_vars, ctx_vars, worker_count, input_vars, loop_vars,
                   pc, expired, callbacks, results, returned>>

\* the deadline of the TimeoutManager passes
DeadlinePasses ==
    /\ timeout /\ ~expired
    /\ scheduler.state \in {"Idle", "Running"}
    /\ expired' = TRUE
    /\ UNCHANGED <<other_vars, ctx_vars, worker_count, input_vars, loop_vars,
                   pc, scheduler, callbacks, results, returned>>

Next ==
    \/ \E d \in Domains, wr \in BOOLEAN, t \in BOOLEAN : RunCall(d, wr, t)
    \/ \E workers \in 0..MaxCores : GetWorkerCount(workers)
    \/ \E workers \in 0..MaxCores :
          \E chunks \in Partitions(DomainSteps(domain)) :
            CreateComputation(workers, chunks)
    \/ Start
    \/ LoopTest
    \/ TimeoutCheck
    \/ GetJob
    \/ Callback
    \/ Drain
    \/ KeyboardInterrupt
    \/ StopAndSort
    \/ \E gr \in BOOLEAN, gi \in {None, 1} :
          (gr \/ gi = None) /\ FinishRun(gr, gi)
    \/ \E job \in scheduler.in_flight : WorkerCompletes(job)
    \/ SchedulerCompletes
    \/ SchedulerCancels
    \/ DeadlinePasses

Spec == Init /\ [][Next]_vars

\* the steps of the thread that called run
CallerStep ==
    \/ Start
    \/ LoopTest
    \/ TimeoutCheck
    \/ GetJob
    \/ Callback
    \/ Drain
    \/ StopAndSort

\* the runs on Range(n) without reduce functions: the polling loop reads
\* neither the elements of the domain nor the results of the jobs
PollingNext ==
    \/ \E d \in {x \in Domains : x.filter = "none" /\ x.take = None},
          t \in BOOLEAN : RunCall(d, FALSE, t)
    \/ \E workers \in 0..MaxCores : GetWorkerCount(workers)
    \/ \E workers \in 0..MaxCores :
          \E chunks \in Partitions(DomainSteps(domain)) :
            CreateComputation(workers, chunks)
    \/ CallerStep
    \/ KeyboardInterrupt
    \/ FinishRun(FALSE, None)
    \/ \E job \in scheduler.in_flight : WorkerCompletes(job)
    \/ SchedulerCompletes
    \/ SchedulerCancels
    \/ DeadlinePasses

\* the calling thread is not stopped for ever: every queue access is
\* non-blocking and time.sleep(3) returns
FairSpec == Init /\ [][PollingNext]_vars /\ WF_vars(CallerStep)

(* -------------------- calls of compare and compare2 ------------------- *)
\* two values are given
CompareInit ==
    /\ ContextInit
    /\ transformed = NoTransformed
    /\ MpiIdle
    /\ comparison \in
         {[NoComparison EXCEPT !.pc = "args", !.a = a, !.b = b] :
             a \in Values, b \in Values}

\* compare(a, b) and compare(b, a)
CallCompare ==
    /\ comparison.pc = "args"
    /\ comparison' =
         [comparison EXCEPT
            !.pc = "compare",
            !.result = Compare(comparison.a, comparison.b),
            !.reverse = Compare(comparison.b, comparison.a)]
    /\ UNCHANGED <<run_vars, transformed, mpi_vars>>

\* compare2(a, bindings_a, b, bindings_b)
CallCompare2(ba, bb) ==
    /\ comparison.pc = "args"
    /\ comparison' =
         [comparison EXCEPT
            !.pc = "compare2",
            !.bindings_a = ba,
            !.bindings_b = bb,
            !.result = Compare2(comparison.a, ba, comparison.b, bb)]
    /\ UNCHANGED <<run_vars, transformed, mpi_vars>>

CompareNext ==
    \/ CallCompare
    \/ \E ba \in Bindings, bb \in Bindings : CallCompare2(ba, bb)

CompareSpec == CompareInit /\ [][CompareNext]_vars

(* ----------------------- iteration of a domain ------------------------ *)
\* a domain and the steps [start, stop) of it
IterationOf(d, caps, start, stop) ==
    [NoTransformed EXCEPT !.pc = "args", !.domain = d, !.caps = caps,
                          !.start = start, !.stop = stop]

\* the domain with every range [start, stop) of its steps
Iterations(d, caps) ==
    {IterationOf(d, caps, w[1], w[2]) :
        w \in {v \in (0..Steps(d)) \X (0..Steps(d)) : v[1] <= v[2]}}

\* a filtered and mapped Range, or a Range under a chain of caps, and a range
\* of its steps
TransformInit ==
    /\ ContextInit
    /\ comparison = NoComparison
    /\ MpiIdle
    /\ transformed \in
         UNION ({Iterations(d, <<>>) : d \in FilteredAndMapped}
                  \cup {Iterations(TakeChain(Range(n), caps), caps) :
                           n \in 0..MaxRange, caps \in Caps})

\* list(domain.iterate_steps(start, stop))
CallIterateSteps ==
    /\ transformed.pc = "args"
    /\ transformed' =
         [transformed EXCEPT
            !.pc = "iterate_steps",
            !.items = StepsIterated(transformed.domain, transformed.start,
                                    transformed.stop)]
    /\ UNCHANGED <<run_vars, comparison, mpi_vars>>

\* list(domain)
CallIterate ==
    /\ transformed.pc = "args"
    /\ transformed.start = 0
    /\ transformed.stop = Steps(transformed.domain)
    /\ transformed' =
         [transformed EXCEPT !.pc = "iterate",
                             !.items = Iterated(transformed.domain)]
    /\ UNCHANGED <<run_vars, comparison, mpi_vars>>

TransformNext ==
    \/ CallIterateSteps
    \/ CallIterate

TransformSpec == TransformInit /\ [][TransformNext]_vars

(* --------------------------- MPI iterators ---------------------------- *)
\* MpiTag
NODE_JOB_OFFER == "NODE_JOB_OFFER"
ITERATOR_ITEM == "ITERATOR_ITEM"
ITERATOR_STOP == "ITERATOR_STOP"

Message(tag, data) == [tag |-> tag, data |-> data]

\* a worker node holding no item
NoItem == [pc |-> "recv", item |-> None]

\* one MpiSplitIterator over a group of nodes, each node reading through an
\* MpiRegionSplitIterator and sending on through an MpiRegionJoinIterator,
\* and one MpiReceiveIterator with group_count = len(group)
MpiInit ==
    /\ ContextInit
    /\ comparison = NoComparison
    /\ transformed = NoTransformed
    /\ \E n \in 1..MaxNodes :
          /\ group = [i \in 1..n |-> i]
          /\ group_count = n
          /\ worker = [i \in 1..n |-> NoItem]
          /\ network = [offers |-> [i \in 1..n |-> <<>>],
                        joined |-> [i \in 1..n |-> <<>>]]
    /\ group_index = 0
    /\ generated = 0
    /\ split_pc = "next"
    /\ stop_count = 0
    /\ receive_pc = "next"
    /\ sent = <<>>
    /\ forwarded = {}
    /\ received = [item \in 0..(MaxItems - 1) |-> 0]

\* the index left where it is
NextIndex_Stuck(g, index) == index

\* _get_target: self.group_index = (self.group_index + 1) % len(self.group)
NextIndex(g, index) == (index + 1) % Len(g)

\* _get_target: target = self.group[self.group_index]
Target(g, index) == g[index + 1]

\* MpiSplitIterator.next, the parent yielding its next item: the item is
\* sent to the target as a job offer
SplitOffer ==
    /\ split_pc = "next"
    /\ generated < MaxItems
    /\ LET node == Target(group, group_index)
       IN  /\ network' =
                [network EXCEPT
                   !.offers[node] =
                       Append(@, Message(NODE_JOB_OFFER, generated))]
           /\ sent' = Append(sent, [tag |-> NODE_JOB_OFFER,
                                    data |-> generated, node |-> node])
    /\ group_index' = NextIndex(group, group_index)
    /\ generated' = generated + 1
    /\ UNCHANGED <<run_vars, comparison, transformed, group, split_pc,
                   worker, group_count, stop_count, receive_pc, forwarded,
                   received>>

\* MpiSplitIterator.next, the parent raising StopIteration
SplitExhausted ==
    /\ split_pc = "next"
    /\ split_pc' = "notify"
    /\ UNCHANGED <<run_vars, comparison, transformed, group, group_index,
                   generated, worker, group_count, stop_count, receive_pc,
                   network, sent, forwarded, received>>

\* the stop messages the split has sent
StopsSent ==
    Cardinality({i \in 1..Len(sent) : sent[i].tag = ITERATOR_STOP})

\* for node in self.group: self.comm.send("", node, MpiTag.ITERATOR_STOP),
\* then raise StopIteration()
SplitNotify ==
    /\ split_pc = "notify"
    /\ IF StopsSent < Len(group)
       THEN LET node == group[StopsSent + 1]
            IN  /\ network' =
                     [network EXCEPT
                        !.offers[node] =
                            Append(@, Message(ITERATOR_STOP, None))]
                /\ sent' = Append(sent, [tag |-> ITERATOR_STOP,
                                         data |-> None, node |-> node])
                /\ UNCHANGED split_pc
       ELSE /\ split_pc' = "stopped"
            /\ UNCHANGED <<network, sent>>
    /\ UNCHANGED <<run_vars, comparison, transformed, group, group_index,
                   generated, worker, group_count, stop_count, receive_pc,
                   forwarded, received>>

\* MpiRegionSplitIterator.next on a node: message = self.comm.recv(source),
\* a job offer returned as the item, a stop raised as StopIteration
RegionSplitNext(node) ==
    /\ node \in DOMAIN worker
    /\ worker[node].pc = "recv"
    /\ network.offers[node] # <<>>
    /\ LET message == Head(network.offers[node])
       IN  worker' =
             [worker EXCEPT
                ![node] = IF message.tag = NODE_JOB_OFFER
                          THEN [pc |-> "send", item |-> message.data]
                          ELSE [pc |-> "ending", item |-> None]]
    /\ network' = [network EXCEPT !.offers[node] = Tail(@)]
    /\ UNCHANGED <<run_vars, comparison, transformed, group, group_index,
                   generated, split_pc, group_count, stop_count, receive_pc,
                   sent, forwarded, received>>

\* MpiRegionJoinIterator.next on a node: the item of the parent is sent to
\* the destination, its StopIteration as a stop message and raised again
RegionJoinNext(node) ==
    /\ node \in DOMAIN worker
    /\ worker[node].pc \in {"send", "ending"}
    /\ IF worker[node].pc = "send"
       THEN /\ network' =
                 [network EXCEPT
                    !.joined[node] =
                        Append(@, Message(ITERATOR_ITEM, worker[node].item))]
            /\ forwarded' = forwarded \cup {worker[node].item}
            /\ worker' = [worker EXCEPT ![node] = NoItem]
       ELSE /\ network' =
                 [network EXCEPT
                    !.joined[node] = Append(@, Message(ITERATOR_STOP, None))]
            /\ worker' = [worker EXCEPT ![node].pc = "stopped"]
            /\ UNCHANGED forwarded
    /\ UNCHANGED <<run_vars, comparison, transformed, group, group_index,
                   generated, split_pc, group_count, stop_count, receive_pc,
                   sent, received>>

\* the receiver stopping at the first stop message
LastStop_First(count, stops) == stops >= 1

\* the receiver stopping at no stop message
LastStop_Never(count, stops) == FALSE

\* if self.group_count == self.stop_count
LastStop(count, stops) == count = stops

\* MpiReceiveIterator.next: message = self.comm.recv() from any source, an
\* item returned, a stop counted and, unless it is the last one, followed by
\* the next call
ReceiveNext(node) ==
    /\ receive_pc = "next"
    /\ node \in DOMAIN network.joined
    /\ network.joined[node] # <<>>
    /\ LET message == Head(network.joined[node])
       IN  IF message.tag = ITERATOR_ITEM
           THEN /\ received' = [received EXCEPT ![message.data] = @ + 1]
                /\ UNCHANGED <<stop_count, receive_pc>>
           ELSE /\ stop_count' = stop_count + 1
                /\ receive_pc' = IF LastStop(group_count, stop_count')
                                 THEN "stopped" ELSE "next"
                /\ UNCHANGED received
    /\ network' = [network EXCEPT !.joined[node] = Tail(@)]
    /\ UNCHANGED <<run_vars, comparison, transformed, group, group_index,
                   generated, split_pc, worker, group_count, sent,
                   forwarded>>

\* the steps of the node that drives the split
SplitStep ==
    \/ SplitOffer
    \/ SplitExhausted
    \/ SplitNotify

\* the steps of a node of the group
WorkerStep(node) ==
    \/ RegionSplitNext(node)
    \/ RegionJoinNext(node)

\* the steps of the node that drives the receiver
ReceiveStep == \E node \in 1..MaxNodes : ReceiveNext(node)

MpiNext ==
    \/ SplitStep
    \/ \E node \in 1..MaxNodes : WorkerStep(node)
    \/ ReceiveStep

MpiSpec == MpiInit /\ [][MpiNext]_vars

\* every node keeps running and a message sent is delivered
MpiFairSpec ==
    /\ MpiSpec
    /\ WF_vars(SplitStep)
    /\ \A node \in 1..MaxNodes : WF_vars(WorkerStep(node))
    /\ WF_vars(ReceiveStep)

(* ----------------------------- properties ------------------------------ *)
\* iterate_jobs has returned (run is at its line after the call, or beyond)
Returned == pc \in {"finish", "returned"}

IsSorted(js) ==
    \A i, j \in 1..Len(js) : i < j => js[i].start_index <= js[j].start_index

\* the jobs of a list, without their results
Chunks(js) ==
    [i \in 1..Len(js) |-> [start_index |-> js[i].start_index,
                           size |-> js[i].size]]

\* the start indices the callbacks were called with, in call order
Logged == [i \in 1..Len(callback_log) |-> callback_log[i].job]

\* C1: the job list iterate_jobs returns is sorted by start_index ascending,
\* on every exit path and for every order of completion.
C1_ReturnedSorted == Returned => IsSorted(jobs)

\* a run left by KeyboardInterrupt returned two jobs that were fetched in
\* descending order of start_index
C1_Witness ==
    /\ pc = "finish" /\ exit_path = "interrupt"
    /\ Len(jobs) >= 2
    /\ \E i, j \in 1..Len(Logged) : i < j /\ Logged[i] > Logged[j]

\* C2: when the loop is left because the scheduler completed, the returned
\* list holds every job the scheduler created, each exactly once.
C2_AllJobsOnce ==
    (Returned /\ exit_path = "completed") => Chunks(jobs) = scheduler.chunks

\* a completed run of at least two jobs in which a job was enqueued after the
\* last poll and was taken by the extraction loop
C2_Witness ==
    /\ pc = "finish" /\ exit_path = "completed"
    /\ Len(jobs) >= 2
    /\ \E i \in 1..Len(jobs) :
          \A k \in 1..Len(Logged) : Logged[k] # jobs[i].start_index

\* C3: in every terminal state (Completed, Canceled, TimedOut) the jobs that
\* sat in the completed-job queue when the loop was left are in the returned
\* list.
C3_UnfetchedDrained ==
    (Returned /\ exit_path \in {"completed", "canceled", "timeout"})
        => \A job \in unfetched_at_exit : \E i \in 1..Len(jobs) : jobs[i] = job

\* the number of calls the log holds of callback cb with the job at start
Calls(cb, start) ==
    Cardinality({k \in 1..Len(callback_log) :
                    callback_log[k] = [cb |-> cb, job |-> start]})

\* position in the log of the call of callbacks[c] with the job at start
CallAt(c, start) ==
    CHOOSE k \in 1..Len(callback_log) :
        callback_log[k] = [cb |-> callbacks[c], job |-> start]

\* C4: in a run that was not interrupted, every registered callback has been
\* called exactly once for every job of the returned list, and the calls for
\* one job were made in registration order.
C4_CallbacksOnEveryJob ==
    (Returned /\ exit_path # "interrupt") =>
        \A i \in 1..Len(jobs) :
            /\ \A c \in 1..Len(callbacks) :
                  Calls(callbacks[c], jobs[i].start_index) = 1
            /\ \A c, e \in 1..Len(callbacks) :
                  c < e => CallAt(c, jobs[i].start_index)
                             < CallAt(e, jobs[i].start_index)

\* the jobs the workers have completed so far
CompletedSoFar ==
    {CompletedJob(domain, scheduler.chunks[i], worker_reduce) :
        i \in {k \in 1..Len(scheduler.chunks) :
                  scheduler.chunks[k] \notin scheduler.in_flight}}

\* what holds of every state after the expired deadline was observed
C5_AfterTimeout ==
    exit_path = "timeout" =>
        /\ pc \in {"stop", "finish", "returned"}
        /\ Returned =>
              /\ scheduler.stop_calls = 1
              /\ IsSorted(jobs)
              /\ \A i, j \in 1..Len(jobs) : i # j => jobs[i] # jobs[j]
              /\ \A i \in 1..Len(jobs) : jobs[i] \in CompletedSoFar
        /\ pc = "returned" => returned.kind \in {"list", "value"}

\* C5: once the timeout check has seen the deadline expired, no job is
\* dequeued and no callback is called any more, scheduler.stop() is called,
\* the returned list is a sorted, duplicate-free subset of the completed jobs,
\* and run returns a result instead of raising.
C5_TimeoutIsSoft ==
    /\ []C5_AfterTimeout
    /\ [][exit_path = "timeout" =>
            /\ Len(jobs') = Len(jobs)
            /\ callback_log' = callback_log
            /\ Len(scheduler'.job_queue) >= Len(scheduler.job_queue)]_vars

\* a run returned after a timeout that left a completed job on the queue and
\* another one in the returned list
C5_Witness ==
    /\ pc = "returned" /\ exit_path = "timeout"
    /\ Len(jobs) >= 1
    /\ scheduler.job_queue # <<>>
    /\ scheduler.stop_calls = 1

\* the concatenation of the returned jobs' results, in the order of the list
Concatenation == Flatten(JobResults(jobs))

\* C6: without a worker reduce function and with a known domain.size, the
\* list run builds has at most domain.size elements and is the first
\* domain.size elements of the concatenation of the job results in ascending
\* start_index order.
C6_TrimmedToSize ==
    (pc = "returned" /\ ~worker_reduce /\ DomainSize(domain) # None) =>
        /\ IsSorted(jobs)
        /\ Len(results) = Min(DomainSize(domain), Len(Concatenation))
        /\ \A i \in 1..Len(results) : results[i] = Concatenation[i]

\* a run on a filtered and capped domain whose chunks yielded more elements
\* than the declared size returned a non-empty list
C6_Witness ==
    /\ pc = "returned" /\ ~worker_reduce
    /\ DomainSize(domain) > 0
    /\ Len(Concatenation) > DomainSize(domain)
    /\ Len(results) = DomainSize(domain)

\* C7: with no worker reduce function, no global reduce function, no timeout
\* and no interruption, run returns the list sequential enumeration of the
\* domain produces, for every split into chunks and every completion order.
C7_EqualsSequential ==
    (pc = "returned" /\ ~worker_reduce /\ ~global_reduce /\ ~timeout
        /\ exit_path # "interrupt")
        => returned = ReturnList(Enumerate(domain))

\* a run on a filtered domain, split into two chunks that were fetched in
\* descending order, returned a non-empty list
C7_Witness ==
    /\ pc = "returned" /\ ~worker_reduce /\ ~global_reduce /\ ~timeout
    /\ exit_path = "completed"
    /\ domain.filter = "odd"
    /\ Len(jobs) >= 2
    /\ \E i, j \in 1..Len(Logged) : i < j /\ Logged[i] > Logged[j]
    /\ returned.list # <<>>

\* the fold of the global reduce function over the results of all returned
\* jobs, from global_reduce_init() when it is given
FoldOfAllJobs ==
    IF global_init = None
    THEN Reduce(Tail(JobResults(jobs)), Head(JobResults(jobs)))
    ELSE Reduce(JobResults(jobs), global_init)

\* C8: with a worker and a global reduce function, run returns the
\* left-to-right fold of the global function over the worker-reduced results
\* of all returned jobs, in ascending start_index order (stated for the runs
\* that completed and folded at least one result).
C8_FoldsEveryJob ==
    (pc = "returned" /\ worker_reduce /\ global_reduce
        /\ exit_path = "completed" /\ Len(results) > 0)
        => returned = ReturnValue(FoldOfAllJobs)

Terminals == {"Completed", "Canceled", "TimedOut"}

\* what holds of the scheduler at every position of run
C9_CallsInOrder ==
    /\ pc \in {"idle", "worker_count", "create", "raised"}
          => scheduler.state = "None"
    /\ pc = "start"
          => /\ scheduler.state = "Idle"
             /\ scheduler.start_calls = 0 /\ scheduler.stop_calls = 0
             /\ jobs = <<>>
    /\ pc \in TryBlock \cup {"stop"}
          => /\ scheduler.state = "Running"
             /\ scheduler.start_calls = 1 /\ scheduler.stop_calls = 0
    /\ Returned
          => /\ scheduler.state \in Terminals
             /\ scheduler.start_calls = 1 /\ scheduler.stop_calls = 1

\* C9: the scheduler goes Idle -> Running -> {Completed, Canceled, TimedOut};
\* start() is called once and before any dequeue, stop() is called once on
\* every exit path of the loop, and no job is dequeued after stop().
C9_Lifecycle ==
    /\ []C9_CallsInOrder
    /\ [][scheduler'.state # scheduler.state =>
            \/ scheduler.state = "None" /\ scheduler'.state = "Idle"
            \/ scheduler.state = "Idle" /\ scheduler'.state = "Running"
            \/ /\ scheduler.state = "Running"
               /\ scheduler'.state \in Terminals]_vars
    /\ [][(Len(jobs') > Len(jobs)
            \/ Len(scheduler'.job_queue) < Len(scheduler.job_queue)) =>
            /\ scheduler.state = "Running"
            /\ scheduler.start_calls = 1 /\ scheduler.stop_calls = 0]_vars

\* an interrupted run that had dequeued a job returned with the scheduler
\* stopped
C9_Witness ==
    /\ pc = "finish" /\ exit_path = "interrupt"
    /\ Len(jobs) >= 1
    /\ scheduler.stop_calls = 1
    /\ scheduler.state = "TimedOut"

\* what holds of every state of a call of run
C10_RaisedBeforeScheduler ==
    /\ pc = "raised"
          => /\ returned = Raise("HaydiException")
             /\ scheduler = NoScheduler
             /\ jobs = <<>>
             /\ execution_count = 0
    /\ pc = "create" => worker_count > 0
    /\ execution_count = IF pc = "returned" THEN 1 ELSE 0

\* C10: with zero cores reported run raises the no-workers error before a
\* JobScheduler exists, dispatches nothing, does not retry and leaves
\* execution_count unchanged; a run that gets past the check adds exactly one
\* to execution_count, when it returns.
C10_NoWorkersIsFatal ==
    /\ []C10_RaisedBeforeScheduler
    /\ [][pc # "raised"]_vars
    /\ [][execution_count' # execution_count =>
            /\ pc = "finish" /\ pc' = "returned"
            /\ execution_count' = execution_count + 1]_vars

\* a run on a non-empty domain raised the no-workers error, with no scheduler
\* created
C10_Witness ==
    /\ pc = "raised"
    /\ returned = Raise("HaydiException")
    /\ domain.n > 0
    /\ scheduler = NoScheduler

(* ------------------------ properties of compare ----------------------- *)
\* a value with the pairs of a Map in canonical order: two values are equal
\* when these agree
Canonical(v) ==
    IF v.kind = "map"
    THEN LET pairs == CanonicalPairs(v)
         IN  Map([i \in 1..Len(pairs) |-> pairs[i].items])
    ELSE v

\* C11: compare is a strict total order over numbers, strings, atoms,
\* sequences and maps: compare(a, a) = 0, compare(a, b) = -compare(b, a),
\* compare(a, b) = 0 only when a and b are equal, and compare(a, b) <= 0 with
\* compare(b, c) <= 0 implies compare(a, c) <= 0, for all values a, b, c.
C11_TotalOrder ==
    comparison.pc = "compare" =>
        LET a == comparison.a
            b == comparison.b
        IN  /\ comparison.result \in {0 - 1, 0, 1}
            /\ Compare(a, a) = 0
            /\ comparison.result = 0 - comparison.reverse
            /\ comparison.result = 0 => Canonical(a) = Canonical(b)
            /\ \A c \in Values :
                  (comparison.result <= 0 /\ Compare(b, c) <= 0)
                      => Compare(a, c) <= 0

\* two Maps of the same two pairs in different insertion order compared as
\* equal
C11_Witness ==
    /\ comparison.pc = "compare"
    /\ comparison.a.kind = "map" /\ comparison.b.kind = "map"
    /\ Len(comparison.a.pairs) = 2
    /\ comparison.a # comparison.b
    /\ comparison.result = 0

\* the result the rank of the kinds gives for two values of different kinds
ByRank(ranks, a, b) ==
    LET Rank(v) == CHOOSE i \in 1..Len(ranks) : ranks[i] = v.kind
    IN  IF Rank(a) < Rank(b) THEN 0 - 1 ELSE 1

\* C12 as stated: values of different kinds compare by the rank
\* numbers < strings < atoms < tuples < maps.
C12_RankAtomsThird ==
    (comparison.pc = "compare" /\ comparison.a.kind # comparison.b.kind) =>
        comparison.result =
            ByRank(<<"number", "string", "atom", "tuple", "map">>,
                   comparison.a, comparison.b)

\* C12, amended: values of different kinds compare by the fixed rank
\* atoms < numbers < strings < tuples < maps, never by value.
C12_RankAtomsFirst ==
    (comparison.pc = "compare" /\ comparison.a.kind # comparison.b.kind) =>
        /\ comparison.result =
              ByRank(<<"atom", "number", "string", "tuple", "map">>,
                     comparison.a, comparison.b)
        /\ comparison.reverse = 0 - comparison.result

\* an atom compared as less than a number
C12_Witness ==
    /\ comparison.pc = "compare"
    /\ comparison.a.kind = "atom" /\ comparison.b.kind = "number"
    /\ comparison.result = 0 - 1
    /\ comparison.reverse = 1

\* the result the first position decides at which the items of s and t
\* differ, that of the lengths when there is none
ByFirstDifference(s, t) ==
    LET common == Min(Len(s), Len(t))
        differ == {i \in 1..common : Compare(s[i], t[i]) # 0}
        first == CHOOSE i \in differ : \A j \in differ : i <= j
    IN  IF differ # {} THEN Compare(s[first], t[first])
        ELSE CompareNumbers(Len(s), Len(t))

BothTuples ==
    /\ comparison.pc = "compare"
    /\ comparison.a.kind = "tuple" /\ comparison.b.kind = "tuple"

\* C13 as stated: two sequences compare lexicographically, the first
\* differing position decides and a strict prefix is less.
C13_Lexicographic ==
    BothTuples =>
        comparison.result =
            ByFirstDifference(comparison.a.items, comparison.b.items)

\* C13, amended: of two sequences of different lengths the shorter one is
\* less, whatever their items; two sequences of the same length compare
\* item by item with compare, the first differing position deciding.
C13_ShorterFirst ==
    BothTuples =>
        LET s == comparison.a.items
            t == comparison.b.items
        IN  comparison.result =
                IF Len(s) # Len(t) THEN CompareNumbers(Len(s), Len(t))
                ELSE ByFirstDifference(s, t)

\* a tuple compared as less than a longer one whose first item is smaller
C13_Witness ==
    /\ BothTuples
    /\ Len(comparison.a.items) = 1 /\ Len(comparison.b.items) = 2
    /\ Compare(comparison.a.items[1], comparison.b.items[1]) = 1
    /\ comparison.result = 0 - 1

\* C14: compare2(a, bindings_a, b, bindings_b) is compare of a with its
\* atoms replaced through bindings_a and b with its atoms replaced through
\* bindings_b, each map applied to its own operand only and before the pairs
\* of a Map are sorted; with both maps empty it is compare(a, b).
C14_ComparesResolved ==
    comparison.pc = "compare2" =>
        /\ comparison.result =
              Compare(ReplaceAtoms(comparison.a, comparison.bindings_a),
                      ReplaceAtoms(comparison.b, comparison.bindings_b))
        /\ (DOMAIN comparison.bindings_a = {}
                /\ DOMAIN comparison.bindings_b = {})
              => comparison.result = Compare(comparison.a, comparison.b)

\* a Map of two pairs compared with itself under a relabeling of the right
\* operand only that changes the canonical order of its pairs; the two are
\* equal
C14_Witness ==
    /\ comparison.pc = "compare2"
    /\ comparison.a.kind = "map" /\ comparison.b = comparison.a
    /\ Len(comparison.a.pairs) = 2
    /\ DOMAIN comparison.bindings_a = {}
    /\ DOMAIN comparison.bindings_b = AtomsOfA
    /\ CanonicalPairs2(comparison.b, comparison.bindings_b)
          # CanonicalPairs(comparison.b)
    /\ comparison.result = 0

(* ------------------- properties of the transformations ---------------- *)
\* the domain is Range(n).filter(pred).map(fn)
FilteredThenMapped(d) == d.kind = "map" /\ d.parent.kind = "filter"

\* fn(x) for the positions x of [start, stop) that satisfy the predicate of
\* Range(n).filter(pred).map(fn), in ascending order
MappedPassing(d, start, stop) ==
    LET passing == Ascending({x \in start..(stop - 1) : Passes(d.parent, x)})
    IN  [i \in 1..Len(passing) |-> Apply(d.fn, passing[i])]

\* the lists iterate_steps gives for the chunks of a split, one after another
ChunksIterated(d, chunks) ==
    Flatten([i \in 1..Len(chunks) |->
                StepsIterated(d, chunks[i].start_index,
                              chunks[i].start_index + chunks[i].size)])

\* C15: iterate_steps(start, stop) on a filtered and then mapped domain
\* yields, in position order, f(x) for exactly the parent positions x of
\* [start, stop) that satisfy the predicate (Range(10).filter(even)
\* .map(x*10) over [2, 5) gives [20, 40], Range(6).filter(odd).map(x*10) over
\* [0, 5) gives [10, 30]), and the lists of consecutive disjoint ranges of
\* steps covering [0, steps) concatenate to the full enumeration.
C15_IteratesPositions ==
    LET d == transformed.domain
    IN  /\ (transformed.pc = "iterate_steps" /\ FilteredThenMapped(d)) =>
              /\ transformed.items =
                    MappedPassing(d, transformed.start, transformed.stop)
              /\ \A mid \in transformed.start..transformed.stop :
                    StepsIterated(d, transformed.start, mid)
                        \o StepsIterated(d, mid, transformed.stop)
                      = transformed.items
        /\ (transformed.pc = "iterate" /\ FilteredThenMapped(d)) =>
              \A chunks \in Partitions(Steps(d)) :
                  ChunksIterated(d, chunks) = transformed.items
        /\ transformed.pc = "iterate_steps" =>
              /\ StepsIterated(
                     MapTransformation(
                         FilterTransformation(Range(10), "even"), "times10"),
                     2, 5) = <<20, 40>>
              /\ StepsIterated(
                     MapTransformation(
                         FilterTransformation(Range(6), "odd"), "times10"),
                     0, 5) = <<10, 30>>

\* the steps [2, 5) of Range(5).filter(even).map(x * 10) gave [20, 40]
C15_Witness ==
    /\ transformed.pc = "iterate_steps"
    /\ transformed.domain =
          MapTransformation(FilterTransformation(Range(5), "even"),
                            "times10")
    /\ transformed.start = 2 /\ transformed.stop = 5
    /\ transformed.items = <<20, 40>>

RECURSIVE Root(_)
\* the Range a chain of transformations starts from
Root(d) == IF d.kind = "range" THEN d ELSE Root(d.parent)

\* the smallest of a non-empty set of numbers
Smallest(S) == CHOOSE x \in S : \A y \in S : x <= y

\* the chain with its last two caps replaced by one cap, the smaller of them
LastTwoMerged(n, caps) ==
    LET m == Len(caps)
    IN  TakeChain(Range(n),
                  SubSeq(caps, 1, m - 2)
                      \o <<Min(caps[m - 1], caps[m])>>)

\* C16: for Range(n) under a chain of caps k1 .. km the size is
\* min(n, k1, .., km), take(a).take(b) behaves as take(min(a, b)), the
\* iteration yields 0 .. min(n, k1, .., km) - 1 in order, and the domain is
\* not filtered.
C16_TakeCaps ==
    (transformed.pc \in {"iterate", "iterate_steps"}
        /\ transformed.caps # <<>>) =>
        LET d == transformed.domain
            n == Root(d).n
            caps == transformed.caps
            least ==
                Smallest({n} \cup {caps[i] : i \in 1..Len(caps)})
        IN  /\ Size(d) = least
            /\ Size(d) <= n
            /\ ~IsFiltered(d)
            /\ transformed.pc = "iterate" =>
                  transformed.items = [i \in 1..least |-> i - 1]
            /\ Len(caps) >= 2 =>
                  LET merged == LastTwoMerged(n, caps)
                  IN  /\ Size(merged) = Size(d)
                      /\ Steps(merged) = Steps(d)
                      /\ transformed.pc = "iterate" =>
                            transformed.items = Iterated(merged)
                      /\ transformed.pc = "iterate_steps" =>
                            transformed.items =
                                StepsIterated(merged, transformed.start,
                                              transformed.stop)

\* Range(5).take(2).take(3) was iterated and gave [0, 1]
C16_Witness ==
    /\ transformed.pc = "iterate"
    /\ Root(transformed.domain).n = 5
    /\ transformed.caps = <<2, 3>>
    /\ Size(transformed.domain) = 2
    /\ transformed.items = <<0, 1>>

(* ------------------- termination of the polling loop ------------------ *)
\* the positions of the while loop of iterate_jobs
Polling == {"loop", "timeout_check", "get", "callback"}

\* the thread is inside iterate_jobs
Iterating == pc \in {"start", "stop"} \cup TryBlock

\* C17: iterate_jobs returns eventually once the scheduler has set
\* completed or canceled, or a timeout was given and its deadline has
\* passed; without a timeout the timeout check never ends the loop, and the
\* loop is left only when the scheduler reports completed or canceled or the
\* user interrupts, so that it polls for ever when none of these happens.
C17_ReturnsEventually ==
    /\ (Iterating /\ (scheduler.completed \/ scheduler.canceled
                        \/ (timeout /\ expired))) ~> Returned
    /\ [](exit_path = "timeout" => timeout)
    /\ []((Returned /\ ~timeout) =>
            /\ exit_path \in {"completed", "canceled", "interrupt"}
            /\ exit_path = "completed" => scheduler.completed
            /\ exit_path = "canceled" => scheduler.canceled)
    /\ [][(pc \in Polling /\ ~timeout
              /\ ~scheduler.completed /\ ~scheduler.canceled)
            => (pc' \in Polling \/ exit_path' = "interrupt")]_vars

\* iterate_jobs returned after its deadline passed, with a job still in
\* flight and the scheduler neither completed nor canceled
C17_Witness ==
    /\ pc = "finish" /\ exit_path = "timeout"
    /\ ~scheduler.completed /\ ~scheduler.canceled
    /\ scheduler.in_flight # {}

\* C18: with global_reduce_fn and global_reduce_init both given, run returns
\* the fold of global_reduce_fn over the trimmed results from
\* global_reduce_init(), for the empty list of results too, where that is
\* global_reduce_init() itself.
C18_FoldsFromInit ==
    (pc = "returned" /\ global_reduce /\ global_init # None) =>
        returned = ReturnValue(Reduce(results, global_init))

(* -------------------- properties of the MPI iterators ----------------- *)
Items == 0..(MaxItems - 1)

\* all nodes of the group and the receiver have raised StopIteration
AllStopped ==
    /\ \A node \in DOMAIN worker : worker[node].pc = "stopped"
    /\ receive_pc = "stopped"

\* what holds of the items in every state of the pipeline
C19_ItemsDelivered ==
    /\ \A item \in DOMAIN received :
          received[item] <= (IF item \in forwarded THEN 1 ELSE 0)
    /\ receive_pc = "stopped" =>
          /\ \A item \in DOMAIN received :
                received[item] = (IF item \in forwarded THEN 1 ELSE 0)
          /\ forwarded = 0..(generated - 1)
          /\ \A node \in DOMAIN worker :
                /\ worker[node].pc = "stopped"
                /\ network.joined[node] = <<>>
                /\ network.offers[node] = <<>>

\* C19: with one split over a group of N nodes and one receiver with
\* group_count = N, under per-sender FIFO delivery and any interleaving,
\* every item a node sends on is returned by the receiver exactly once
\* before the receiver raises StopIteration, and once the source is
\* exhausted every node and the receiver raise StopIteration eventually.
C19_PipelineDrains ==
    /\ []C19_ItemsDelivered
    /\ (split_pc \in {"notify", "stopped"}) ~> AllStopped
    /\ [][receive_pc = "stopped" => UNCHANGED <<received, network>>]_vars

\* the receiver of a group of two nodes stopped after it returned every item
\* of the source, items of both nodes among them
C19_Witness ==
    /\ receive_pc = "stopped"
    /\ Len(group) = 2
    /\ generated = MaxItems
    /\ \A item \in Items : received[item] = 1

\* the offers the split has sent to a node
OffersTo(node) ==
    Cardinality({i \in 1..Len(sent) :
                    sent[i].tag = NODE_JOB_OFFER /\ sent[i].node = node})

\* the positions in sent of the stop messages to a node
StopsTo(node) ==
    {i \in 1..Len(sent) : sent[i].tag = ITERATOR_STOP /\ sent[i].node = node}

\* C20: the k-th item of the parent (k = 0, 1, ..) is sent as a job offer to
\* group[k mod len(group)], so that the offers sent to two nodes differ by
\* at most one in number and group_index stays in [0, len(group)); when the
\* parent is exhausted every node of the group is sent exactly one stop,
\* after all offers to it, and then StopIteration is raised.
C20_RoundRobin ==
    split_pc # "none" =>
        /\ group_index \in 0..(Len(group) - 1)
        /\ group_index = generated % Len(group)
        /\ \A k \in 0..(generated - 1) :
              sent[k + 1] = [tag |-> NODE_JOB_OFFER, data |-> k,
                             node |-> group[(k % Len(group)) + 1]]
        /\ \A i \in 1..Len(sent) :
              i > generated => sent[i].tag = ITERATOR_STOP
        /\ \A m, n \in DOMAIN group :
              OffersTo(group[m]) - OffersTo(group[n]) \in {0 - 1, 0, 1}
        /\ \A n \in DOMAIN group :
              /\ Cardinality(StopsTo(group[n])) <= 1
              /\ split_pc = "next" => StopsTo(group[n]) = {}
              /\ split_pc = "stopped" =>
                    Cardinality(StopsTo(group[n])) = 1
        /\ split_pc = "stopped" => Len(sent) = generated + Len(group)

\* the split over two nodes stopped after three items: two offers and a stop
\* to the first node, one offer and a stop to the second
C20_Witness ==
    /\ split_pc = "stopped"
    /\ Len(group) = 2
    /\ generated = 3
    /\ OffersTo(group[1]) = 2 /\ OffersTo(group[2]) = 1
    /\ Len(sent) = 5

\* the messages with a tag in a channel
Tagged(channel, tag) ==
    Cardinality({i \in 1..Len(channel) : channel[i].tag = tag})

RECURSIVE InFlight(_, _)
\* the messages with a tag on their way to the receiver from the nodes 1..n
InFlight(n, tag) ==
    IF n = 0 THEN 0
    ELSE Tagged(network.joined[n], tag) + InFlight(n - 1, tag)

\* the stop messages the receiver has received: those the nodes have sent
\* (one by each node that raised StopIteration) less those on their way
StopsReceived ==
    Cardinality({node \in DOMAIN worker : worker[node].pc = "stopped"})
        - InFlight(Len(group), ITERATOR_STOP)

\* the item messages the receiver has received
ItemsReceived ==
    Cardinality(forwarded) - InFlight(Len(group), ITERATOR_ITEM)

RECURSIVE Returned_Count(_)
\* the elements the receiver has returned, of the items 0..(n - 1)
Returned_Count(n) ==
    IF n = 0 THEN 0 ELSE received[n - 1] + Returned_Count(n - 1)

\* what holds of the receiver between two calls of next
C21_StopsCounted ==
    receive_pc # "none" =>
        /\ stop_count = StopsReceived
        /\ stop_count <= group_count
        /\ receive_pc = "stopped" <=> stop_count = group_count
        /\ Returned_Count(MaxItems) = ItemsReceived

\* the receiver takes the first message of the channel of a node
Receives(node) ==
    /\ network.joined[node] # <<>>
    /\ network.joined'[node] = Tail(network.joined[node])

\* what a step does to the receiver
C21_ReceiverStep ==
    IF \E node \in DOMAIN network.joined : Receives(node)
    THEN \A node \in DOMAIN network.joined :
            Receives(node) =>
                LET message == Head(network.joined[node])
                IN  /\ receive_pc = "next"
                    /\ message.tag = ITERATOR_ITEM =>
                          /\ received' =
                                [received EXCEPT ![message.data] = @ + 1]
                          /\ UNCHANGED <<stop_count, receive_pc>>
                    /\ message.tag = ITERATOR_STOP =>
                          /\ UNCHANGED received
                          /\ stop_count' = stop_count + 1
                          /\ receive_pc' = IF stop_count' = group_count
                                           THEN "stopped" ELSE "next"
    ELSE UNCHANGED <<received, stop_count, receive_pc>>

\* C21: MpiReceiveIterator raises StopIteration exactly when the stop
\* messages it has received reach group_count and never earlier: stop_count
\* is the number of stop messages received so far and stays <= group_count,
\* each item message received before that point is returned as the next
\* element, and a stop message that is not the last one is skipped without
\* producing an element.
C21_StopsAtLastStop ==
    /\ []C21_StopsCounted
    /\ [][C21_ReceiverStep]_vars

\* the receiver of a group of two nodes skipped the stop of one node and
\* goes on with the item the other node has sent
C21_Witness ==
    /\ group_count = 2
    /\ stop_count = 1
    /\ receive_pc = "next"
    /\ \E node \in DOMAIN network.joined :
          /\ network.joined[node] # <<>>
          /\ Head(network.joined[node]).tag = ITERATOR_ITEM

====
